---- MODULE Spec2Model ----
(***************************************************************************)
(* Live caption / live translation overlay: the capture thread, the        *)
(* translate thread, the Tk timer callback update_gui and main, of         *)
(*   src/live_translate/live_translate.py   (Spec, SpecScenario)           *)
(*   src/live_captions/live_captions.py     (SpecCaptions)                 *)
(* Text is a TLA+ string; Len, \o and SubSeq act on it as on a Python str. *)
(***************************************************************************)
EXTENDS Integers, Sequences, FiniteSets, TLC

VARIABLES
    program,           \* which program of the repository runs
    scenario,          \* which audio the AudioSource plays: "live" or a scripted one
    resources,         \* what exists at startup: config.ini, model/, the model path,
                       \*   the loopback device
    frame_no,          \* frames m.record has returned (or failed on) so far
    max_len,           \* config [Text] max_buffer_length
    translator,        \* state["translator"]: "identity" (line 89) or "argos" (line 92)
    running,           \* state["running"] / self.running
    recorder,          \* the mic.recorder context: "unopened", "open", "closed"
    recognized_queue,  \* state["recognized_queue"]
    translated_queue,  \* state["translated_queue"]
    transcript_queue,  \* self.transcript_queue (live_captions.py)
    text_buffer,       \* state["text_buffer"] / self.text_buffer
    partial_text,      \* state["partial_text"]
    label,             \* the text last set on the Tk label
    timer,             \* a root.after(update_gui) callback is pending
    cap_pc,            \* capture thread: "unstarted","open","while","record","done","error"
    tr_pc,             \* translate thread: "unstarted","while","poll","get","translate","raised",
                       \*                   "done","crashed"
    tr_item,           \* translate_loop's local item
    main_pc            \* main thread: "guard","load_config","setup_translator",
                       \*   "load_model","get_mic","setup_gui","fatal",
                       \*   "start","update_gui","mainloop","finally",
                       \*   "join_capture","join_translate","done"

vars == <<program, resources, scenario, frame_no, max_len, translator, running, recorder,
          recognized_queue, translated_queue, transcript_queue, text_buffer,
          partial_text, label, timer, cap_pc, tr_pc, tr_item, main_pc>>

(***************************************************************************)
(* Bounds and inputs                                                       *)
(***************************************************************************)
\* Frames of live audio that carry an event or fail; later frames are silence.
MaxFrames == 3

\* Values of max_buffer_length tried with live audio.
MaxBufferLengths == {1, 2, 3, 5}

\* What the recognizer returns for a live frame, before .strip(): " " is silence.
RecognizerTexts == {" ", " ab"}

\* What the Argos translator may return for a text.
TranslatedTexts == {"", "c "}

(***************************************************************************)
(* Python str operations                                                   *)
(***************************************************************************)
IsSpace(c) == c \in {" ", "\n"}

RECURSIVE lstrip(_)
lstrip(s) ==
    IF Len(s) > 0 /\ IsSpace(SubSeq(s, 1, 1))
    THEN lstrip(SubSeq(s, 2, Len(s)))
    ELSE s

RECURSIVE rstrip(_)
rstrip(s) ==
    IF Len(s) > 0 /\ IsSpace(SubSeq(s, Len(s), Len(s)))
    THEN rstrip(SubSeq(s, 1, Len(s) - 1))
    ELSE s

\* s.strip()
strip(s) == lstrip(rstrip(s))

\* s[-n:] for n >= 0 (s[-0:] is the whole of s)
LastChars(s, n) ==
    IF n = 0 \/ Len(s) <= n THEN s ELSE SubSeq(s, Len(s) - n + 1, Len(s))

(***************************************************************************)
(* The audio source and the recognizer (external): one outcome per frame   *)
(***************************************************************************)
Final(t) == [kind |-> "final", text |-> t]
Partial(t) == [kind |-> "partial", text |-> t]
ReadError == [kind |-> "error", text |-> ""]
Silence == Partial("")

\* The scripted sessions: the frames played, then silence.
Scenarios == {"A", "B", "C", "D"}

ScenarioFrames(s) ==
    CASE s = "A" -> <<Partial("hello"), Partial("hello world"), Final("hello world.")>>
      [] s = "B" -> <<Final("xabcdefghij"), Final("klm")>>
      [] s = "C" -> <<Final("bonjour"), Partial("a")>>
      [] s = "D" -> <<Partial("hello"), ReadError>>
      [] OTHER   -> <<>>

ScenarioMaxLen(s) == IF s = "B" THEN 10 ELSE 200

ScenarioTranslator(s) == IF s = "C" THEN "argos" ELSE "identity"

FrameLimit ==
    IF scenario \in {"live", "ellipsis"} THEN MaxFrames ELSE Len(ScenarioFrames(scenario))

\* Live audio whose texts can carry an ellipsis of their own
EllipsisTexts == {"a", "a..."}

EllipsisOutcomes ==
    {Final(t) : t \in EllipsisTexts} \cup {Partial(t) : t \in EllipsisTexts}

LiveOutcomes ==
    {Final(t) : t \in RecognizerTexts} \cup {Partial(t) : t \in RecognizerTexts}

\* The outcomes m.record + recognizer can have for the next frame.
FrameOutcomes ==
    IF frame_no >= FrameLimit THEN {Silence, ReadError}
    ELSE IF scenario = "live" THEN LiveOutcomes \cup {ReadError}
    ELSE IF scenario = "ellipsis" THEN EllipsisOutcomes \cup {ReadError}
    ELSE {ScenarioFrames(scenario)[frame_no + 1]}

\* translator(text) when it returns: the fallback lambda returns its argument.
TranslatorResults(text) ==
    IF translator = "identity" THEN {text}
    ELSE IF scenario = "ellipsis" THEN EllipsisTexts \cup {text}
    ELSE TranslatedTexts \cup {text}

(***************************************************************************)
(* live_translate.py: capture_audio_loop                                   *)
(***************************************************************************)
\* tr_item while translate_loop holds no item (the local is dead after the put).
NoItem == [text |-> "", is_final |-> FALSE]

\* Faulty variant: a final result also runs the partial branch.
RecognizedEvents_BothBranches(o) ==
    IF strip(o.text) # ""
    THEN IF o.kind = "final"
         THEN <<[text |-> strip(o.text), is_final |-> TRUE],
                [text |-> strip(o.text), is_final |-> FALSE]>>
         ELSE <<[text |-> strip(o.text), is_final |-> FALSE]>>
    ELSE <<>>

\* Faulty variant: the event is put without the test of its text.
RecognizedEvents_NoTextTest(o) ==
    <<[text |-> strip(o.text), is_final |-> (o.kind = "final")]>>

\* The event a frame puts on recognized_queue, if any (lines 119-130).
RecognizedEvents(o) ==
    IF strip(o.text) # ""
    THEN <<[text |-> strip(o.text), is_final |-> (o.kind = "final")]>>
    ELSE <<>>

CountFrame == IF frame_no < FrameLimit THEN frame_no + 1 ELSE frame_no

\* with mic.recorder(...) as m: the recorder opens
capture_open ==
    /\ cap_pc = "open"
    /\ recorder' = "open"
    /\ cap_pc' = "while"
    /\ UNCHANGED <<program, resources, scenario, frame_no, max_len, translator, running,
                   recognized_queue, translated_queue, transcript_queue,
                   text_buffer, partial_text, label, timer, tr_pc, tr_item, main_pc>>

\* mic.recorder(...) raises: the except clause clears the running flag
capture_open_error ==
    /\ cap_pc = "open"
    /\ running' = FALSE
    /\ cap_pc' = "error"
    /\ UNCHANGED <<program, resources, scenario, frame_no, max_len, translator, recorder,
                   recognized_queue, translated_queue, transcript_queue,
                   text_buffer, partial_text, label, timer, tr_pc, tr_item, main_pc>>

\* Faulty variant: the loop records again without testing the running flag.
capture_while_NoCheck ==
    /\ cap_pc = "while"
    /\ IF frame_no < FrameLimit
       THEN /\ cap_pc' = "record"
            /\ recorder' = recorder
       ELSE /\ cap_pc' = "done"
            /\ recorder' = "closed"
    /\ UNCHANGED <<program, resources, scenario, frame_no, max_len, translator, running,
                   recognized_queue, translated_queue, transcript_queue,
                   text_buffer, partial_text, label, timer, tr_pc, tr_item, main_pc>>

\* while state["running"]:
capture_while ==
    /\ cap_pc = "while"
    /\ IF running
       THEN cap_pc' = "record" /\ recorder' = recorder
       ELSE cap_pc' = "done" /\ recorder' = "closed"
    /\ UNCHANGED <<program, resources, scenario, frame_no, max_len, translator, running,
                   recognized_queue, translated_queue, transcript_queue,
                   text_buffer, partial_text, label, timer, tr_pc, tr_item, main_pc>>

\* m.record returns a frame; the recognizer's result is put on the queue
capture_frame ==
    /\ cap_pc = "record"
    /\ \E o \in FrameOutcomes :
          /\ o.kind # "error"
          /\ recognized_queue' = recognized_queue \o RecognizedEvents(o)
    /\ frame_no' = CountFrame
    /\ cap_pc' = "while"
    /\ UNCHANGED <<program, resources, scenario, max_len, translator, running, recorder,
                   translated_queue, transcript_queue, text_buffer, partial_text,
                   label, timer, tr_pc, tr_item, main_pc>>

\* Faulty variant: the recorder is not closed when the loop ends by an exception.
capture_except_LeavesOpen ==
    /\ cap_pc = "record"
    /\ ReadError \in FrameOutcomes
    /\ frame_no' = CountFrame
    /\ running' = FALSE
    /\ recorder' = recorder
    /\ cap_pc' = "error"
    /\ UNCHANGED <<program, resources, scenario, max_len, translator, recognized_queue,
                   translated_queue, transcript_queue, text_buffer, partial_text,
                   label, timer, tr_pc, tr_item, main_pc>>

\* Faulty variant: the except clause sets the flag to True.
capture_except_FlagTrue ==
    /\ cap_pc = "record"
    /\ ReadError \in FrameOutcomes
    /\ frame_no' = CountFrame
    /\ running' = TRUE
    /\ recorder' = "closed"
    /\ cap_pc' = "error"
    /\ UNCHANGED <<program, resources, scenario, max_len, translator, recognized_queue,
                   translated_queue, transcript_queue, text_buffer, partial_text,
                   label, timer, tr_pc, tr_item, main_pc>>

\* m.record raises: the recorder is closed, the except clause clears the flag
capture_except ==
    /\ cap_pc = "record"
    /\ ReadError \in FrameOutcomes
    /\ frame_no' = CountFrame
    /\ running' = FALSE
    /\ recorder' = "closed"
    /\ cap_pc' = "error"
    /\ UNCHANGED <<program, resources, scenario, max_len, translator, recognized_queue,
                   translated_queue, transcript_queue, text_buffer, partial_text,
                   label, timer, tr_pc, tr_item, main_pc>>

(***************************************************************************)
(* live_translate.py: translate_loop                                       *)
(***************************************************************************)
\* while state["running"]:
translate_while ==
    /\ tr_pc = "while"
    /\ tr_pc' = IF running THEN "poll" ELSE "done"
    /\ UNCHANGED <<program, resources, scenario, frame_no, max_len, translator, running, recorder,
                   recognized_queue, translated_queue, transcript_queue,
                   text_buffer, partial_text, label, timer, cap_pc, tr_item, main_pc>>

\* Faulty variant: the newest event is taken instead of the oldest.
translate_poll_Newest ==
    /\ tr_pc = "poll"
    /\ IF recognized_queue = <<>>
       THEN /\ tr_pc' = "while"
            /\ UNCHANGED <<recognized_queue, tr_item>>
       ELSE /\ tr_item' = recognized_queue[Len(recognized_queue)]
            /\ recognized_queue' = SubSeq(recognized_queue, 1, Len(recognized_queue) - 1)
            /\ tr_pc' = "translate"
    /\ UNCHANGED <<program, resources, scenario, frame_no, max_len, translator, running, recorder,
                   translated_queue, transcript_queue, text_buffer, partial_text,
                   label, timer, cap_pc, main_pc>>

\* if not recognized_queue.empty(): item = recognized_queue.get()
translate_poll ==
    /\ tr_pc = "poll"
    /\ IF recognized_queue = <<>>
       THEN /\ tr_pc' = "while"
            /\ UNCHANGED <<recognized_queue, tr_item>>
       ELSE /\ tr_item' = Head(recognized_queue)
            /\ recognized_queue' = Tail(recognized_queue)
            /\ tr_pc' = "translate"
    /\ UNCHANGED <<program, resources, scenario, frame_no, max_len, translator, running, recorder,
                   translated_queue, transcript_queue, text_buffer, partial_text,
                   label, timer, cap_pc, main_pc>>

\* translate_poll in its two steps, for the interleavings between the test
\* of the queue and the get.
\* Faulty variant: get is called without the test of the queue.
translate_empty_test_NoTest ==
    /\ tr_pc = "poll"
    /\ tr_pc' = "get"
    /\ UNCHANGED <<program, resources, scenario, frame_no, max_len, translator, running,
                   recorder, recognized_queue, translated_queue, transcript_queue,
                   text_buffer, partial_text, label, timer, cap_pc, tr_item, main_pc>>

\* if not recognized_queue.empty(): (line 147)
translate_empty_test ==
    /\ tr_pc = "poll"
    /\ tr_pc' = IF recognized_queue = <<>> THEN "while" ELSE "get"
    /\ UNCHANGED <<program, resources, scenario, frame_no, max_len, translator, running,
                   recorder, recognized_queue, translated_queue, transcript_queue,
                   text_buffer, partial_text, label, timer, cap_pc, tr_item, main_pc>>

\* item = recognized_queue.get() (line 148): a blocking get, which returns
\* only when the queue holds an item
translate_get ==
    /\ tr_pc = "get"
    /\ recognized_queue # <<>>
    /\ tr_item' = Head(recognized_queue)
    /\ recognized_queue' = Tail(recognized_queue)
    /\ tr_pc' = "translate"
    /\ UNCHANGED <<program, resources, scenario, frame_no, max_len, translator, running,
                   recorder, translated_queue, transcript_queue, text_buffer,
                   partial_text, label, timer, cap_pc, main_pc>>

\* Faulty variant: the item is rebuilt and its is_final flag is lost.
TranslatedItem_FlagLost(item, t) ==
    [text |-> item.text, is_final |-> FALSE, translated_text |-> t]

\* The item translate_loop puts when translator(text) returned t (lines 151-153).
TranslatedItem(item, t) ==
    [text |-> item.text, is_final |-> item.is_final, translated_text |-> t]

\* Faulty variant: the translate thread appends a final to text_buffer itself.
translate_call_WritesBuffer ==
    /\ tr_pc = "translate"
    /\ \E t \in TranslatorResults(tr_item.text) :
          /\ translated_queue' = Append(translated_queue, TranslatedItem(tr_item, t))
          /\ text_buffer' = IF tr_item.is_final THEN text_buffer \o " " \o t
                            ELSE text_buffer
    /\ tr_item' = NoItem
    /\ tr_pc' = "while"
    /\ UNCHANGED <<program, resources, scenario, frame_no, max_len, translator, running,
                   recorder, recognized_queue, transcript_queue, partial_text,
                   label, timer, cap_pc, main_pc>>

\* translated = translator(text); translated_queue.put(item)
translate_call ==
    /\ tr_pc = "translate"
    /\ \E t \in TranslatorResults(tr_item.text) :
          translated_queue' = Append(translated_queue, TranslatedItem(tr_item, t))
    /\ tr_item' = NoItem
    /\ tr_pc' = "while"
    /\ UNCHANGED <<program, resources, scenario, frame_no, max_len, translator, running, recorder,
                   recognized_queue, transcript_queue, text_buffer, partial_text,
                   label, timer, cap_pc, main_pc>>

\* translator(text) raises inside translate_loop
translate_raise ==
    /\ tr_pc = "translate"
    /\ translator = "argos"
    /\ tr_pc' = "raised"
    /\ UNCHANGED <<program, resources, scenario, frame_no, max_len, translator, running, recorder,
                   recognized_queue, translated_queue, transcript_queue,
                   text_buffer, partial_text, label, timer, cap_pc, tr_item, main_pc>>

\* Nothing in translate_loop catches the exception: the thread ends, the item
\* is neither forwarded nor put back, the running flag is left as it is.
translate_unwind ==
    /\ tr_pc = "raised"
    /\ tr_pc' = "crashed"
    /\ UNCHANGED <<program, resources, scenario, frame_no, max_len, translator, running, recorder,
                   recognized_queue, translated_queue, transcript_queue,
                   text_buffer, partial_text, label, timer, cap_pc, tr_item, main_pc>>

(***************************************************************************)
(* live_translate.py: update_gui                                           *)
(***************************************************************************)
\* Faulty variant: a partial is appended to the buffer like a final.
ApplyItem_AppendPartial(ds, item) ==
    IF item.is_final
    THEN [text_buffer |-> ds.text_buffer \o " " \o item.translated_text,
          partial_text |-> ""]
    ELSE [text_buffer |-> ds.text_buffer \o " " \o item.translated_text,
          partial_text |-> item.translated_text \o "..."]

\* Faulty variant: a partial is appended to the pending text instead of replacing it.
ApplyItem_AppendPending(ds, item) ==
    IF item.is_final
    THEN [text_buffer |-> ds.text_buffer \o " " \o item.translated_text,
          partial_text |-> ""]
    ELSE [text_buffer |-> ds.text_buffer,
          partial_text |-> ds.partial_text \o item.translated_text \o "..."]

\* Faulty variant: a final is appended without the separating space.
ApplyItem_NoSeparator(ds, item) ==
    IF item.is_final
    THEN [text_buffer |-> ds.text_buffer \o item.translated_text,
          partial_text |-> ""]
    ELSE [text_buffer |-> ds.text_buffer,
          partial_text |-> item.translated_text \o "..."]

\* Faulty variant: a final does not clear the pending text.
ApplyItem_KeepPending(ds, item) ==
    IF item.is_final
    THEN [text_buffer |-> ds.text_buffer \o " " \o item.translated_text,
          partial_text |-> ds.partial_text]
    ELSE [text_buffer |-> ds.text_buffer,
          partial_text |-> item.translated_text \o "..."]

\* One pass of the while loop's body (lines 215-224) on the display state.
ApplyItem(ds, item) ==
    IF item.is_final
    THEN [text_buffer |-> ds.text_buffer \o " " \o item.translated_text,
          partial_text |-> ""]
    ELSE [text_buffer |-> ds.text_buffer,
          partial_text |-> item.translated_text \o "..."]

\* while not translated_queue.empty(): ... (lines 214-224)
RECURSIVE DrainQueue(_, _)
DrainQueue(q, ds) ==
    IF q = <<>> THEN ds ELSE DrainQueue(Tail(q), ApplyItem(ds, Head(q)))

\* Faulty variant: the buffer is displayed without .strip().
ComposeDisplay_NoStrip(ds) ==
    IF ds.partial_text # ""
    THEN ds.text_buffer \o "\n" \o strip(ds.partial_text)
    ELSE ds.text_buffer

\* Faulty variant: the display is composed with the partial_text of before
\* the tick and the text_buffer of after it.
ComposeDisplay_StalePartial(ds) ==
    IF partial_text # ""
    THEN strip(ds.text_buffer) \o "\n" \o strip(partial_text)
    ELSE strip(ds.text_buffer)

\* Compose display (lines 227-229)
ComposeDisplay(ds) ==
    IF ds.partial_text # ""
    THEN strip(ds.text_buffer) \o "\n" \o strip(ds.partial_text)
    ELSE strip(ds.text_buffer)

\* Faulty variant: the trim keeps the oldest characters.
TrimDisplay_KeepFront(display_text, n) ==
    IF Len(display_text) > n THEN SubSeq(display_text, 1, n) ELSE display_text

\* Trim if too long (lines 232-237): the text set on the label
TrimDisplay(display_text, n) ==
    IF Len(display_text) > n THEN LastChars(display_text, n) ELSE display_text

\* Faulty variant: the buffer is cut whenever the display is, to the
\* display's last characters.
TrimBuffer_FromDisplay(display_text, buf, n) ==
    IF Len(display_text) > n THEN LastChars(display_text, n) ELSE buf

\* Trim if too long (lines 232-237): the text_buffer kept
TrimBuffer(display_text, buf, n) ==
    IF Len(display_text) > n /\ Len(buf) > n THEN LastChars(buf, n) ELSE buf

\* Faulty variant: update_gui does not schedule its next call.
update_gui_NoReschedule ==
    /\ \/ main_pc = "update_gui"
       \/ main_pc = "mainloop" /\ timer
    /\ LET ds == DrainQueue(translated_queue,
                            [text_buffer |-> text_buffer, partial_text |-> partial_text])
           display_text == ComposeDisplay(ds)
       IN  /\ translated_queue' = <<>>
           /\ partial_text' = ds.partial_text
           /\ text_buffer' = TrimBuffer(display_text, ds.text_buffer, max_len)
           /\ label' = TrimDisplay(display_text, max_len)
    /\ timer' = FALSE
    /\ main_pc' = "mainloop"
    /\ UNCHANGED <<program, resources, scenario, frame_no, max_len, translator, running,
                   recorder, recognized_queue, transcript_queue, cap_pc, tr_pc, tr_item>>

\* Faulty variant: update_gui schedules its next call whatever the flag says.
update_gui_AlwaysReschedule ==
    /\ \/ main_pc = "update_gui"
       \/ main_pc = "mainloop" /\ timer
    /\ LET ds == DrainQueue(translated_queue,
                            [text_buffer |-> text_buffer, partial_text |-> partial_text])
           display_text == ComposeDisplay(ds)
       IN  /\ translated_queue' = <<>>
           /\ partial_text' = ds.partial_text
           /\ text_buffer' = TrimBuffer(display_text, ds.text_buffer, max_len)
           /\ label' = TrimDisplay(display_text, max_len)
    /\ timer' = TRUE
    /\ main_pc' = "mainloop"
    /\ UNCHANGED <<program, resources, scenario, frame_no, max_len, translator, running,
                   recorder, recognized_queue, transcript_queue, cap_pc, tr_pc, tr_item>>

\* One call of update_gui: the first one from main (line 298) or a timer tick.
update_gui ==
    /\ \/ main_pc = "update_gui"
       \/ main_pc = "mainloop" /\ timer
    /\ LET ds == DrainQueue(translated_queue,
                            [text_buffer |-> text_buffer, partial_text |-> partial_text])
           display_text == ComposeDisplay(ds)
       IN  /\ translated_queue' = <<>>
           /\ partial_text' = ds.partial_text
           /\ text_buffer' = TrimBuffer(display_text, ds.text_buffer, max_len)
           /\ label' = TrimDisplay(display_text, max_len)
    /\ timer' = running
    /\ main_pc' = "mainloop"
    /\ UNCHANGED <<program, resources, scenario, frame_no, max_len, translator, running, recorder,
                   recognized_queue, transcript_queue, cap_pc, tr_pc, tr_item>>

(***************************************************************************)
(* live_translate.py: main                                                 *)
(***************************************************************************)
\* t_capture.start(); t_translate.start() (lines 291-295)
main_start ==
    /\ main_pc = "start"
    /\ cap_pc' = "open"
    /\ tr_pc' = "while"
    /\ main_pc' = "update_gui"
    /\ UNCHANGED <<program, resources, scenario, frame_no, max_len, translator, running, recorder,
                   recognized_queue, translated_queue, transcript_queue,
                   text_buffer, partial_text, label, timer, tr_item>>

\* The user closes the window (or Ctrl-C): root.mainloop() returns.
mainloop_close ==
    /\ main_pc = "mainloop"
    /\ main_pc' = "finally"
    /\ UNCHANGED <<program, resources, scenario, frame_no, max_len, translator, running, recorder,
                   recognized_queue, translated_queue, transcript_queue,
                   text_buffer, partial_text, label, timer, cap_pc, tr_pc, tr_item>>

\* Faulty variant: main goes on to the joins without clearing the flag.
main_finally_KeepsFlag ==
    /\ main_pc = "finally"
    /\ main_pc' = "join_capture"
    /\ UNCHANGED <<program, resources, scenario, frame_no, max_len, translator, running,
                   recorder, recognized_queue, translated_queue, transcript_queue,
                   text_buffer, partial_text, label, timer, cap_pc, tr_pc, tr_item>>

\* finally: state["running"] = False
main_finally ==
    /\ main_pc = "finally"
    /\ running' = FALSE
    /\ main_pc' = "join_capture"
    /\ UNCHANGED <<program, resources, scenario, frame_no, max_len, translator, recorder,
                   recognized_queue, translated_queue, transcript_queue,
                   text_buffer, partial_text, label, timer, cap_pc, tr_pc, tr_item>>

\* t_capture.join()
main_join_capture ==
    /\ main_pc = "join_capture"
    /\ cap_pc \in {"done", "error"}
    /\ main_pc' = "join_translate"
    /\ UNCHANGED <<program, resources, scenario, frame_no, max_len, translator, running, recorder,
                   recognized_queue, translated_queue, transcript_queue,
                   text_buffer, partial_text, label, timer, cap_pc, tr_pc, tr_item>>

\* Faulty variant: main does not wait for the translate thread.
main_join_translate_NoWait ==
    /\ main_pc = "join_translate"
    /\ main_pc' = "done"
    /\ UNCHANGED <<program, resources, scenario, frame_no, max_len, translator, running, recorder,
                   recognized_queue, translated_queue, transcript_queue,
                   text_buffer, partial_text, label, timer, cap_pc, tr_pc, tr_item>>

\* t_translate.join()
main_join_translate ==
    /\ main_pc = "join_translate"
    /\ tr_pc \in {"done", "crashed"}
    /\ main_pc' = "done"
    /\ UNCHANGED <<program, resources, scenario, frame_no, max_len, translator, running, recorder,
                   recognized_queue, translated_queue, transcript_queue,
                   text_buffer, partial_text, label, timer, cap_pc, tr_pc, tr_item>>

(***************************************************************************)
(* live_translate.py: the threads and the recognizer                       *)
(***************************************************************************)
Threads == {"capture", "translate", "gui"}

\* Faulty variant: translate_loop asks the recognizer for the text it translates.
InRecognizerCall_Translate(thread) ==
    \/ thread = "capture" /\ cap_pc = "record"
    \/ thread = "translate" /\ tr_pc = "translate"

\* The thread is at code that calls recognizer.AcceptWaveform, Result or
\* PartialResult: lines 119-128, in the body of capture_audio_loop's loop.
\* translate_loop (lines 136-153) and update_gui (lines 204-243) hold no
\* such call.
InRecognizerCall(thread) ==
    thread = "capture" /\ cap_pc = "record"

(***************************************************************************)
(* live_translate.py: startup (the __main__ guard and main up to line 288) *)
(***************************************************************************)
Resources ==
    [config_ini : BOOLEAN, model_dir : BOOLEAN, model_path : BOOLEAN, loopback : BOOLEAN]

AllPresent ==
    [config_ini |-> TRUE, model_dir |-> TRUE, model_path |-> TRUE, loopback |-> TRUE]

\* if not os.path.exists("model"): sys.exit(1); else main()
main_guard ==
    /\ main_pc = "guard"
    /\ main_pc' = IF resources.model_dir THEN "load_config" ELSE "fatal"
    /\ UNCHANGED <<program, resources, scenario, frame_no, max_len, translator, running,
                   recorder, recognized_queue, translated_queue, transcript_queue,
                   text_buffer, partial_text, label, timer, cap_pc, tr_pc, tr_item>>

\* config = load_config("config.ini"): raises FileNotFoundError without the file
main_load_config ==
    /\ main_pc = "load_config"
    /\ main_pc' = IF resources.config_ini THEN "setup_translator" ELSE "fatal"
    /\ UNCHANGED <<program, resources, scenario, frame_no, max_len, translator, running,
                   recorder, recognized_queue, translated_queue, transcript_queue,
                   text_buffer, partial_text, label, timer, cap_pc, tr_pc, tr_item>>

\* translator_fn = setup_translator_auto(...): the function it returns is
\* the value of translator
main_setup_translator ==
    /\ main_pc = "setup_translator"
    /\ main_pc' = "load_model"
    /\ UNCHANGED <<program, resources, scenario, frame_no, max_len, translator, running,
                   recorder, recognized_queue, translated_queue, transcript_queue,
                   text_buffer, partial_text, label, timer, cap_pc, tr_pc, tr_item>>

\* vosk_model = load_vosk_model(model_path): raises FileNotFoundError
\* when the path does not exist
main_load_vosk_model ==
    /\ main_pc = "load_model"
    /\ main_pc' = IF resources.model_path THEN "get_mic" ELSE "fatal"
    /\ UNCHANGED <<program, resources, scenario, frame_no, max_len, translator, running,
                   recorder, recognized_queue, translated_queue, transcript_queue,
                   text_buffer, partial_text, label, timer, cap_pc, tr_pc, tr_item>>

\* Faulty variant: the device error is printed and main goes on without a device.
main_get_loopback_mic_Continue ==
    /\ main_pc = "get_mic"
    /\ main_pc' = "setup_gui"
    /\ UNCHANGED <<program, resources, scenario, frame_no, max_len, translator, running,
                   recorder, recognized_queue, translated_queue, transcript_queue,
                   text_buffer, partial_text, label, timer, cap_pc, tr_pc, tr_item>>

\* mic = get_loopback_mic(): sys.exit(1) when the device cannot be obtained
main_get_loopback_mic ==
    /\ main_pc = "get_mic"
    /\ main_pc' = IF resources.loopback THEN "setup_gui" ELSE "fatal"
    /\ UNCHANGED <<program, resources, scenario, frame_no, max_len, translator, running,
                   recorder, recognized_queue, translated_queue, transcript_queue,
                   text_buffer, partial_text, label, timer, cap_pc, tr_pc, tr_item>>

\* The shared state is built and the window created (lines 266-288).
main_setup_gui ==
    /\ main_pc = "setup_gui"
    /\ main_pc' = "start"
    /\ UNCHANGED <<program, resources, scenario, frame_no, max_len, translator, running,
                   recorder, recognized_queue, translated_queue, transcript_queue,
                   text_buffer, partial_text, label, timer, cap_pc, tr_pc, tr_item>>

(***************************************************************************)
(* Specifications of live_translate.py                                     *)
(***************************************************************************)
\* The shared state main builds (lines 267-288), threads not yet started.
InitState ==
    /\ resources = AllPresent
    /\ frame_no = 0
    /\ running = TRUE
    /\ recorder = "unopened"
    /\ recognized_queue = <<>>
    /\ translated_queue = <<>>
    /\ transcript_queue = <<>>
    /\ text_buffer = ""
    /\ partial_text = ""
    /\ label = ""
    /\ timer = FALSE
    /\ cap_pc = "unstarted"
    /\ tr_pc = "unstarted"
    /\ tr_item = NoItem
    /\ main_pc = "start"

Init ==
    /\ program = "live_translate"
    /\ scenario = "live"
    /\ max_len \in MaxBufferLengths
    /\ translator \in {"identity", "argos"}
    /\ InitState

InitScenario ==
    /\ program = "live_translate"
    /\ scenario \in Scenarios
    /\ max_len = ScenarioMaxLen(scenario)
    /\ translator = ScenarioTranslator(scenario)
    /\ InitState

\* Every step the program takes by itself: the user's closing of the window is not one.
ProgramStep ==
    \/ capture_open
    \/ capture_open_error
    \/ capture_while
    \/ capture_frame
    \/ capture_except
    \/ translate_while
    \/ translate_poll
    \/ translate_call
    \/ translate_raise
    \/ translate_unwind
    \/ update_gui
    \/ main_start
    \/ main_finally
    \/ main_join_capture
    \/ main_join_translate

Next == ProgramStep \/ mainloop_close

Spec == Init /\ [][Next]_vars

SpecScenario == InitScenario /\ [][Next]_vars

\* live_translate.py with translate_loop's test of the queue and its get as
\* separate steps
NextGet ==
    \/ capture_open
    \/ capture_open_error
    \/ capture_while
    \/ capture_frame
    \/ capture_except
    \/ translate_while
    \/ translate_empty_test
    \/ translate_get
    \/ translate_call
    \/ translate_raise
    \/ translate_unwind
    \/ update_gui
    \/ main_start
    \/ mainloop_close
    \/ main_finally
    \/ main_join_capture
    \/ main_join_translate

SpecGet == Init /\ [][NextGet]_vars

\* The max_buffer_length of the runs checked for progress: what gets through
\* the pipeline does not depend on it.
FairBufferLength == CHOOSE n \in MaxBufferLengths : \A m \in MaxBufferLengths : n >= m

InitFair ==
    /\ program = "live_translate"
    /\ scenario = "live"
    /\ max_len = FairBufferLength
    /\ translator \in {"identity", "argos"}
    /\ InitState

\* The steps of the translate thread while the translator returns
TranslateThread == translate_while \/ translate_poll \/ translate_call

\* The steps the main thread takes by itself: all but the user's closing of
\* the window
GuiThread ==
    main_start \/ update_gui \/ main_finally \/ main_join_capture \/ main_join_translate

\* Live audio with the scheduling the platform gives: a thread that can run
\* does run (the translate thread is never starved), and Tk calls a due
\* root.after callback.
SpecFair ==
    /\ InitFair
    /\ [][Next]_vars
    /\ WF_vars(TranslateThread)
    /\ WF_vars(GuiThread)

\* The steps of the capture thread: an open or a record call that has
\* been made comes back, with a result or with an error
CaptureThread ==
    capture_open \/ capture_open_error \/ capture_while \/ capture_frame \/ capture_except

\* The steps of the translate thread: a translator call that has been made
\* comes back, with a text or with an exception
TranslateThreadSteps ==
    translate_while \/ translate_poll \/ translate_call \/ translate_raise
        \/ translate_unwind

\* Live audio in which no call blocks for ever and every thread that can
\* run does run.
SpecShutdown ==
    /\ InitFair
    /\ [][Next]_vars
    /\ WF_vars(CaptureThread)
    /\ WF_vars(TranslateThreadSteps)
    /\ WF_vars(GuiThread)

\* The program from the command line on: any of the startup resources may be missing.
InitStartup ==
    /\ program = "live_translate"
    /\ resources \in Resources
    /\ scenario = "live"
    /\ max_len \in MaxBufferLengths
    /\ translator \in {"identity", "argos"}
    /\ frame_no = 0
    /\ running = TRUE
    /\ recorder = "unopened"
    /\ recognized_queue = <<>>
    /\ translated_queue = <<>>
    /\ transcript_queue = <<>>
    /\ text_buffer = ""
    /\ partial_text = ""
    /\ label = ""
    /\ timer = FALSE
    /\ cap_pc = "unstarted"
    /\ tr_pc = "unstarted"
    /\ tr_item = NoItem
    /\ main_pc = "guard"

NextStartup ==
    \/ main_guard
    \/ main_load_config
    \/ main_setup_translator
    \/ main_load_vosk_model
    \/ main_get_loopback_mic
    \/ main_setup_gui
    \/ Next

SpecStartup == InitStartup /\ [][NextStartup]_vars

(***************************************************************************)
(* live_captions.py: SmoothCaptions                                        *)
(***************************************************************************)
LowerLetters == "abcdefghijklmnopqrstuvwxyz"
UpperLetters == "ABCDEFGHIJKLMNOPQRSTUVWXYZ"

UpperChar(c) ==
    IF \E i \in 1..Len(LowerLetters) : SubSeq(LowerLetters, i, i) = c
    THEN LET i == CHOOSE i \in 1..Len(LowerLetters) : SubSeq(LowerLetters, i, i) = c
         IN  SubSeq(UpperLetters, i, i)
    ELSE c

\* s.upper()
RECURSIVE upper(_)
upper(s) ==
    IF s = "" THEN "" ELSE UpperChar(SubSeq(s, 1, 1)) \o upper(SubSeq(s, 2, Len(s)))

\* sub in s
Contains(s, sub) ==
    \E i \in 1..(Len(s) - Len(sub) + 1) : SubSeq(s, i, i + Len(sub) - 1) = sub

\* The string a frame puts on transcript_queue, if any (lines 133-142).
SC_TranscriptEvents(o) ==
    IF strip(o.text) = "" THEN <<>>
    ELSE IF o.kind = "final" THEN <<upper(strip(o.text))>>
    ELSE <<upper(strip(o.text)) \o "...">>

\* with self.mic.recorder(...) as mic: the recorder opens
SC_capture_open ==
    /\ cap_pc = "open"
    /\ recorder' = "open"
    /\ cap_pc' = "while"
    /\ UNCHANGED <<program, resources, scenario, frame_no, max_len, translator, running,
                   recognized_queue, translated_queue, transcript_queue,
                   text_buffer, partial_text, label, timer, tr_pc, tr_item, main_pc>>

\* self.mic.recorder(...) raises: the except clause clears self.running
SC_capture_open_error ==
    /\ cap_pc = "open"
    /\ running' = FALSE
    /\ cap_pc' = "error"
    /\ UNCHANGED <<program, resources, scenario, frame_no, max_len, translator, recorder,
                   recognized_queue, translated_queue, transcript_queue,
                   text_buffer, partial_text, label, timer, tr_pc, tr_item, main_pc>>

\* while self.running:
SC_capture_while ==
    /\ cap_pc = "while"
    /\ IF running
       THEN cap_pc' = "record" /\ recorder' = recorder
       ELSE cap_pc' = "done" /\ recorder' = "closed"
    /\ UNCHANGED <<program, resources, scenario, frame_no, max_len, translator, running,
                   recognized_queue, translated_queue, transcript_queue,
                   text_buffer, partial_text, label, timer, tr_pc, tr_item, main_pc>>

\* mic.record returns a frame; the recognizer's result is put on the queue
SC_capture_frame ==
    /\ cap_pc = "record"
    /\ \E o \in FrameOutcomes :
          /\ o.kind # "error"
          /\ transcript_queue' = transcript_queue \o SC_TranscriptEvents(o)
    /\ frame_no' = CountFrame
    /\ cap_pc' = "while"
    /\ UNCHANGED <<program, resources, scenario, max_len, translator, running, recorder,
                   recognized_queue, translated_queue, text_buffer, partial_text,
                   label, timer, tr_pc, tr_item, main_pc>>

\* mic.record raises: the recorder is closed, the except clause clears self.running
SC_capture_except ==
    /\ cap_pc = "record"
    /\ ReadError \in FrameOutcomes
    /\ frame_no' = CountFrame
    /\ running' = FALSE
    /\ recorder' = "closed"
    /\ cap_pc' = "error"
    /\ UNCHANGED <<program, resources, scenario, max_len, translator, recognized_queue,
                   translated_queue, transcript_queue, text_buffer, partial_text,
                   label, timer, tr_pc, tr_item, main_pc>>

\* self.text_buffer after update_gui took new_text (lines 154-159)
SC_Buffer(buf, new_text) ==
    IF Contains(new_text, "...") THEN buf ELSE buf \o " " \o new_text

\* display_text after update_gui took new_text (lines 154-163)
SC_Display(buf, new_text, n) ==
    LastChars(IF Contains(new_text, "...")
              THEN buf \o " " \o new_text
              ELSE SC_Buffer(buf, new_text), n)

\* One call of SmoothCaptions.update_gui: at most one string is taken.
SC_update_gui ==
    /\ \/ main_pc = "update_gui"
       \/ main_pc = "mainloop" /\ timer
    /\ IF transcript_queue # <<>>
       THEN /\ transcript_queue' = Tail(transcript_queue)
            /\ text_buffer' = SC_Buffer(text_buffer, Head(transcript_queue))
            /\ label' = SC_Display(text_buffer, Head(transcript_queue), max_len)
       ELSE UNCHANGED <<transcript_queue, text_buffer, label>>
    /\ timer' = running
    /\ main_pc' = "mainloop"
    /\ UNCHANGED <<program, resources, scenario, frame_no, max_len, translator, running, recorder,
                   recognized_queue, translated_queue, partial_text,
                   cap_pc, tr_pc, tr_item>>

\* self.audio_thread.start() (lines 58-59)
SC_start ==
    /\ main_pc = "start"
    /\ cap_pc' = "open"
    /\ main_pc' = "update_gui"
    /\ UNCHANGED <<program, resources, scenario, frame_no, max_len, translator, running, recorder,
                   recognized_queue, translated_queue, transcript_queue,
                   text_buffer, partial_text, label, timer, tr_pc, tr_item>>

\* The user closes the window: self.root.mainloop() returns.
SC_mainloop_close ==
    /\ main_pc = "mainloop"
    /\ main_pc' = "finally"
    /\ UNCHANGED <<program, resources, scenario, frame_no, max_len, translator, running, recorder,
                   recognized_queue, translated_queue, transcript_queue,
                   text_buffer, partial_text, label, timer, cap_pc, tr_pc, tr_item>>

\* self.running = False (line 63)
SC_stop ==
    /\ main_pc = "finally"
    /\ running' = FALSE
    /\ main_pc' = "join_capture"
    /\ UNCHANGED <<program, resources, scenario, frame_no, max_len, translator, recorder,
                   recognized_queue, translated_queue, transcript_queue,
                   text_buffer, partial_text, label, timer, cap_pc, tr_pc, tr_item>>

\* self.audio_thread.join() (line 64)
SC_join ==
    /\ main_pc = "join_capture"
    /\ cap_pc \in {"done", "error"}
    /\ main_pc' = "done"
    /\ UNCHANGED <<program, resources, scenario, frame_no, max_len, translator, running, recorder,
                   recognized_queue, translated_queue, transcript_queue,
                   text_buffer, partial_text, label, timer, cap_pc, tr_pc, tr_item>>

\* SmoothCaptions.__init__ up to the thread's start (lines 53-55): no translator.
InitCaptions ==
    /\ program = "live_captions"
    /\ scenario = "live"
    /\ max_len \in MaxBufferLengths
    /\ translator = "identity"
    /\ InitState

NextCaptions ==
    \/ SC_capture_open
    \/ SC_capture_open_error
    \/ SC_capture_while
    \/ SC_capture_frame
    \/ SC_capture_except
    \/ SC_update_gui
    \/ SC_start
    \/ SC_mainloop_close
    \/ SC_stop
    \/ SC_join

SpecCaptions == InitCaptions /\ [][NextCaptions]_vars

(***************************************************************************)
(* live_translate_old.py: the translator is called inside the capture      *)
(* thread; one queue of strings, partials marked by a trailing "..."       *)
(* capture_open, capture_open_error, capture_while, capture_except,        *)
(* mainloop_close and main_finally are the same code as in                 *)
(* live_translate.py (lines 136-138, 159-161, 297-302 here).               *)
(***************************************************************************)
\* The string put on transcript_queue for a frame whose text translates to t
\* (lines 144-158).
OLD_TranscriptString(o, t) == IF o.kind = "final" THEN t ELSE t \o "..."

\* m.record returns a frame; its text, if any, is translated and put on the queue
OLD_capture_frame ==
    /\ cap_pc = "record"
    /\ \E o \in FrameOutcomes :
          /\ o.kind # "error"
          /\ IF strip(o.text) = ""
             THEN transcript_queue' = transcript_queue
             ELSE \E t \in TranslatorResults(strip(o.text)) :
                     transcript_queue' =
                         Append(transcript_queue, OLD_TranscriptString(o, t))
    /\ frame_no' = CountFrame
    /\ cap_pc' = "while"
    /\ UNCHANGED <<program, resources, scenario, max_len, translator, running, recorder,
                   recognized_queue, translated_queue, text_buffer, partial_text,
                   label, timer, tr_pc, tr_item, main_pc>>

\* translator(text) raises inside the try of capture_audio_loop: the audio
\* handler catches it, the event is dropped and the running flag cleared
OLD_capture_translator_raise ==
    /\ cap_pc = "record"
    /\ translator = "argos"
    /\ \E o \in FrameOutcomes : o.kind # "error" /\ strip(o.text) # ""
    /\ frame_no' = CountFrame
    /\ running' = FALSE
    /\ recorder' = "closed"
    /\ cap_pc' = "error"
    /\ UNCHANGED <<program, resources, scenario, max_len, translator, recognized_queue,
                   translated_queue, transcript_queue, text_buffer, partial_text,
                   label, timer, tr_pc, tr_item, main_pc>>

\* s.endswith(suffix)
EndsWith(s, suffix) ==
    Len(s) >= Len(suffix) /\ SubSeq(s, Len(s) - Len(suffix) + 1, Len(s)) = suffix

\* display_text before the trim (lines 229-234)
OLD_Display(buf, new_text) == buf \o " " \o new_text

\* buffer_obj["value"] before the trim (lines 229-234)
OLD_Buffer(buf, new_text) ==
    IF EndsWith(new_text, "...") THEN buf ELSE buf \o " " \o new_text

\* buffer_obj["value"] after the trim (lines 237-240)
OLD_TrimBuffer(display_text, buf, n) ==
    IF Len(display_text) > n THEN LastChars(buf, n) ELSE buf

\* One call of update_gui: at most one string is taken.
OLD_update_gui ==
    /\ \/ main_pc = "update_gui"
       \/ main_pc = "mainloop" /\ timer
    /\ IF transcript_queue # <<>>
       THEN LET new_text == Head(transcript_queue)
                display_text == OLD_Display(text_buffer, new_text)
            IN  /\ transcript_queue' = Tail(transcript_queue)
                /\ text_buffer' = OLD_TrimBuffer(display_text,
                                                 OLD_Buffer(text_buffer, new_text),
                                                 max_len)
                /\ label' = TrimDisplay(display_text, max_len)
       ELSE UNCHANGED <<transcript_queue, text_buffer, label>>
    /\ timer' = running
    /\ main_pc' = "mainloop"
    /\ UNCHANGED <<program, resources, scenario, frame_no, max_len, translator, running, recorder,
                   recognized_queue, translated_queue, partial_text,
                   cap_pc, tr_pc, tr_item>>

\* audio_thread.start() (lines 290-291)
OLD_main_start ==
    /\ main_pc = "start"
    /\ cap_pc' = "open"
    /\ main_pc' = "update_gui"
    /\ UNCHANGED <<program, resources, scenario, frame_no, max_len, translator, running, recorder,
                   recognized_queue, translated_queue, transcript_queue,
                   text_buffer, partial_text, label, timer, tr_pc, tr_item>>

\* audio_thread.join() (line 303)
OLD_main_join ==
    /\ main_pc = "join_capture"
    /\ cap_pc \in {"done", "error"}
    /\ main_pc' = "done"
    /\ UNCHANGED <<program, resources, scenario, frame_no, max_len, translator, running, recorder,
                   recognized_queue, translated_queue, transcript_queue,
                   text_buffer, partial_text, label, timer, cap_pc, tr_pc, tr_item>>

InitOld ==
    /\ program = "live_translate_old"
    /\ scenario = "live"
    /\ max_len \in MaxBufferLengths
    /\ translator \in {"identity", "argos"}
    /\ InitState

NextOld ==
    \/ capture_open
    \/ capture_open_error
    \/ capture_while
    \/ OLD_capture_frame
    \/ OLD_capture_translator_raise
    \/ capture_except
    \/ OLD_update_gui
    \/ OLD_main_start
    \/ mainloop_close
    \/ main_finally
    \/ OLD_main_join

SpecOld == InitOld /\ [][NextOld]_vars

(***************************************************************************)
(* The single-buffer caption programs under src/test:                      *)
(*   live_caption_optimised/live_caption.py  SmoothCaptions                *)
(*   live_caption/test-deepseek_v2.py        FixedLiveCaptions             *)
(*   live_caption/test-deepseek_v3.py        EnhancedVisualCaptions        *)
(* Their capture_audio and the end of their __init__ are the same code as  *)
(* live_captions.py's (the SC_ actions); update_gui differs.               *)
(***************************************************************************)
SingleBufferPrograms == {"caption_optimised", "caption_v2", "caption_v3"}

\* The characters of text_buffer shown: text_buffer[-120:] in v2 and v3
FixedDisplayChars == 120

DisplayChars == IF program = "caption_optimised" THEN max_len ELSE FixedDisplayChars

\* s.replace(sub, "")
RECURSIVE RemoveAll(_, _)
RemoveAll(s, sub) ==
    IF Len(s) < Len(sub) THEN s
    ELSE IF SubSeq(s, 1, Len(sub)) = sub
         THEN RemoveAll(SubSeq(s, Len(sub) + 1, Len(s)), sub)
         ELSE SubSeq(s, 1, 1) \o RemoveAll(SubSeq(s, 2, Len(s)), sub)

\* self.text_buffer after update_gui took new_text
SB_Buffer(buf, new_text) ==
    IF Contains(new_text, "...") THEN new_text ELSE buf \o " " \o new_text

\* The text set on the label
SB_Display(buf, n) == RemoveAll(LastChars(buf, n), "...")

\* One call of update_gui: at most one string is taken.
SB_update_gui ==
    /\ \/ main_pc = "update_gui"
       \/ main_pc = "mainloop" /\ timer
    /\ IF transcript_queue # <<>>
       THEN /\ transcript_queue' = Tail(transcript_queue)
            /\ text_buffer' = SB_Buffer(text_buffer, Head(transcript_queue))
            /\ label' = SB_Display(SB_Buffer(text_buffer, Head(transcript_queue)),
                                   DisplayChars)
       ELSE UNCHANGED <<transcript_queue, text_buffer, label>>
    /\ timer' = running
    /\ main_pc' = "mainloop"
    /\ UNCHANGED <<program, resources, scenario, frame_no, max_len, translator, running, recorder,
                   recognized_queue, translated_queue, partial_text,
                   cap_pc, tr_pc, tr_item>>

\* SmoothCaptions.terminate_program, the close button of the optimised
\* variant: self.running = False; self.root.destroy() ends mainloop.
SB_terminate_program ==
    /\ program = "caption_optimised"
    /\ main_pc = "mainloop"
    /\ running' = FALSE
    /\ main_pc' = "finally"
    /\ UNCHANGED <<program, resources, scenario, frame_no, max_len, translator, recorder,
                   recognized_queue, translated_queue, transcript_queue,
                   text_buffer, partial_text, label, timer, cap_pc, tr_pc, tr_item>>

InitSingleBuffer ==
    /\ program \in SingleBufferPrograms
    /\ scenario = "live"
    /\ max_len \in MaxBufferLengths
    /\ translator = "identity"
    /\ InitState

NextSingleBuffer ==
    \/ SC_capture_open
    \/ SC_capture_open_error
    \/ SC_capture_while
    \/ SC_capture_frame
    \/ SC_capture_except
    \/ SB_update_gui
    \/ SB_terminate_program
    \/ SC_start
    \/ SC_mainloop_close
    \/ SC_stop
    \/ SC_join

SpecSingleBuffer == InitSingleBuffer /\ [][NextSingleBuffer]_vars

(***************************************************************************)
(* src/live_caption/test-deepseek.py: LiveCaptions, the first variant.     *)
(* capture_audio has no try: an audio error ends the thread and leaves     *)
(* self.running as it is.  The end of __init__ is the same code as         *)
(* live_captions.py's (SC_start, SC_mainloop_close, SC_stop, SC_join).     *)
(***************************************************************************)
\* recognizer.Result() and recognizer.PartialResult(): the JSON text Vosk returns
ResultJson(text) == "{\n  \"text\" : \"" \o text \o "\"\n}"

PartialJson(text) == "{\n  \"partial\" : \"" \o text \o "\"\n}"

\* s[from:-cut]
Slice(s, from, cut) ==
    IF Len(s) - cut <= from THEN "" ELSE SubSeq(s, from + 1, Len(s) - cut)

\* The string a frame puts on transcript_queue, if any (lines 57-64).
LC_TranscriptEvents(o) ==
    LET text == IF o.kind = "final" THEN Slice(ResultJson(o.text), 18, 3)
                ELSE Slice(PartialJson(o.text), 17, 3)
    IN  IF text # "" THEN <<text>> ELSE <<>>

\* sc.get_microphone(...).recorder(...) raises: the thread ends
LC_capture_open_error ==
    /\ cap_pc = "open"
    /\ cap_pc' = "error"
    /\ UNCHANGED <<program, resources, scenario, frame_no, max_len, translator, running,
                   recorder, recognized_queue, translated_queue, transcript_queue,
                   text_buffer, partial_text, label, timer, tr_pc, tr_item, main_pc>>

\* mic.record returns a frame; the recognizer's result is put on the queue
LC_capture_frame ==
    /\ cap_pc = "record"
    /\ \E o \in FrameOutcomes :
          /\ o.kind # "error"
          /\ transcript_queue' = transcript_queue \o LC_TranscriptEvents(o)
    /\ frame_no' = CountFrame
    /\ cap_pc' = "while"
    /\ UNCHANGED <<program, resources, scenario, max_len, translator, running, recorder,
                   recognized_queue, translated_queue, text_buffer, partial_text,
                   label, timer, tr_pc, tr_item, main_pc>>

\* mic.record raises: the with block closes the recorder and the thread ends
LC_capture_raise ==
    /\ cap_pc = "record"
    /\ ReadError \in FrameOutcomes
    /\ frame_no' = CountFrame
    /\ recorder' = "closed"
    /\ cap_pc' = "error"
    /\ UNCHANGED <<program, resources, scenario, max_len, translator, running,
                   recognized_queue, translated_queue, transcript_queue, text_buffer,
                   partial_text, label, timer, tr_pc, tr_item, main_pc>>

\* One call of update_gui: the queue is drained, the label shows the last string.
LC_update_gui ==
    /\ \/ main_pc = "update_gui"
       \/ main_pc = "mainloop" /\ timer
    /\ transcript_queue' = <<>>
    /\ label' = IF transcript_queue # <<>>
                THEN transcript_queue[Len(transcript_queue)]
                ELSE label
    /\ timer' = running
    /\ main_pc' = "mainloop"
    /\ UNCHANGED <<program, resources, scenario, frame_no, max_len, translator, running,
                   recorder, recognized_queue, translated_queue, text_buffer,
                   partial_text, cap_pc, tr_pc, tr_item>>

InitFirst ==
    /\ program = "caption_first"
    /\ scenario = "live"
    /\ max_len \in MaxBufferLengths
    /\ translator = "identity"
    /\ InitState

NextFirst ==
    \/ SC_capture_open
    \/ LC_capture_open_error
    \/ SC_capture_while
    \/ LC_capture_frame
    \/ LC_capture_raise
    \/ LC_update_gui
    \/ SC_start
    \/ SC_mainloop_close
    \/ SC_stop
    \/ SC_join

SpecFirst == InitFirst /\ [][NextFirst]_vars

(***************************************************************************)
(* The programs that mark a partial in-band, with texts that can hold dots *)
(***************************************************************************)
InitEllipsis ==
    /\ program \in {"live_translate_old", "live_captions"}
    /\ scenario = "ellipsis"
    /\ max_len \in MaxBufferLengths
    /\ translator \in (IF program = "live_translate_old"
                       THEN {"identity", "argos"} ELSE {"identity"})
    /\ InitState

NextEllipsis ==
    \/ program = "live_translate_old" /\ NextOld
    \/ program = "live_captions" /\ NextCaptions

SpecEllipsis == InitEllipsis /\ [][NextEllipsis]_vars

(***************************************************************************)
(* Every program of the repository                                         *)
(***************************************************************************)
InitAll == Init \/ InitOld \/ InitCaptions \/ InitSingleBuffer \/ InitFirst

NextAll ==
    \/ program = "live_translate" /\ Next
    \/ program = "live_translate_old" /\ NextOld
    \/ program = "live_captions" /\ NextCaptions
    \/ program \in SingleBufferPrograms /\ NextSingleBuffer
    \/ program = "caption_first" /\ NextFirst

SpecAll == InitAll /\ [][NextAll]_vars

(***************************************************************************)
(* Properties of live_translate.py's display state                         *)
(***************************************************************************)
\* The text the final events of q add to the buffer, in order.
RECURSIVE FinalsText(_)
FinalsText(q) ==
    IF q = <<>> THEN ""
    ELSE (IF Head(q).is_final THEN " " \o Head(q).translated_text ELSE "")
         \o FinalsText(Tail(q))

\* This step is an update_gui call that applied at least one event.
TickApplies == translated_queue # <<>> /\ translated_queue' = <<>>

LastItem(q) == q[Len(q)]

HasFinal(q) == \E i \in 1..Len(q) : q[i].is_final
HasPartial(q) == \E i \in 1..Len(q) : ~q[i].is_final

\* update_gui can run now.
TickDue == main_pc = "update_gui" \/ (main_pc = "mainloop" /\ timer)

\* C1: whenever text_buffer changes, and whenever update_gui applies events, the
\* new text_buffer is the old one followed by the text of each final event of the
\* queue once, in order (or the trailing max_len characters of that): no partial
\* text is written into it and no final text is added twice.
C1_NoDuplication ==
    [][ (text_buffer' # text_buffer \/ TickApplies)
        => LET full == text_buffer \o FinalsText(translated_queue)
           IN  /\ translated_queue' = <<>>
               /\ text_buffer' \in {full, LastChars(full, max_len)} ]_vars

\* A tick is due on a queue that holds a partial and a final, after an earlier final.
C1_Witness ==
    /\ TickDue
    /\ text_buffer # ""
    /\ HasFinal(translated_queue)
    /\ HasPartial(translated_queue)
    /\ ENABLED (update_gui /\ text_buffer' # text_buffer)

\* The event applied last is a partial that follows a partial with no final between.
PartialAfterPartial ==
    /\ translated_queue # <<>>
    /\ ~LastItem(translated_queue).is_final
    /\ IF Len(translated_queue) >= 2
       THEN ~translated_queue[Len(translated_queue) - 1].is_final
       ELSE partial_text # ""

\* C2: when update_gui applies a partial right after another partial, the pending
\* text afterwards is the second partial's translated_text followed by "...":
\* nothing of the first partial is kept.
C2_PartialReplaces ==
    [][ (TickApplies /\ PartialAfterPartial)
        => partial_text' = LastItem(translated_queue).translated_text \o "..." ]_vars

\* A partial is pending and a tick is due on one more partial with another text.
C2_Witness ==
    /\ TickDue
    /\ partial_text # ""
    /\ Len(translated_queue) = 1
    /\ ~translated_queue[1].is_final
    /\ partial_text # translated_queue[1].translated_text \o "..."
    /\ ENABLED (update_gui /\ partial_text' # partial_text)

\* C3: when the last event update_gui applies is a final, partial_text is empty
\* afterwards and text_buffer has gained each final's translated_text once (and
\* is cut to its trailing max_len characters when it is trimmed).
C3_FinalClearsAndAppends ==
    [][ (TickApplies /\ LastItem(translated_queue).is_final)
        => LET full == text_buffer \o FinalsText(translated_queue)
           IN  /\ partial_text' = ""
               /\ text_buffer' \in {full, LastChars(full, max_len)} ]_vars

\* A partial is pending and a tick is due on the final of the utterance.
C3_Witness ==
    /\ TickDue
    /\ partial_text # ""
    /\ Len(translated_queue) = 1
    /\ translated_queue[1].is_final
    /\ ENABLED (update_gui /\ partial_text' = "" /\ text_buffer' # text_buffer)

\* C4: len(text_buffer) never exceeds max_buffer_length (text_buffer changes only
\* inside update_gui, so every state shows it as a tick left it).
C4_BufferBounded == Len(text_buffer) <= max_len

\* C6: an event whose translated_text is empty leaves text_buffer and partial_text
\* as they were.
C6_EmptyEventIdempotent ==
    [][ (TickApplies /\ Len(translated_queue) = 1
           /\ translated_queue[1].translated_text = "")
        => (text_buffer' = text_buffer /\ partial_text' = partial_text) ]_vars

\* Every event of the scripted session has been captured, translated and applied.
SessionApplied ==
    /\ frame_no = FrameLimit
    /\ cap_pc # "record"
    /\ recognized_queue = <<>>
    /\ tr_pc \notin {"translate", "raised", "crashed"}
    /\ translated_queue = <<>>

\* C7: Scenario A (partial "hello", partial "hello world", final "hello world.",
\* max_buffer_length 200): once the three events are applied the label shows
\* "hello world." and partial_text is empty.
C7_ScenarioA ==
    (scenario = "A" /\ SessionApplied)
        => (label = "hello world." /\ partial_text = "")

C7_Witness ==
    /\ scenario = "A"
    /\ SessionApplied
    /\ frame_no = 3
    /\ label = "hello world."

\* The final "klm" is the only event on the queue.
OnlyKlm ==
    translated_queue = <<[text |-> "klm", is_final |-> TRUE, translated_text |-> "klm"]>>

\* C8 as stated: with max_buffer_length 10 and text_buffer "abcdefghij", applying
\* the final "klm" makes text_buffer "defghijklm".
C8_ScenarioB_AsStated ==
    [][ (max_len = 10 /\ text_buffer = "abcdefghij" /\ OnlyKlm /\ TickApplies)
        => text_buffer' = "defghijklm" ]_vars

\* C8 amended: the final is appended after a separating space, so text_buffer
\* becomes "efghij klm", the last 10 characters of "abcdefghij klm".
C8_ScenarioB ==
    [][ (max_len = 10 /\ text_buffer = "abcdefghij" /\ OnlyKlm /\ TickApplies)
        => text_buffer' = "efghij klm" ]_vars

C8_Witness ==
    /\ max_len = 10
    /\ text_buffer = "abcdefghij"
    /\ OnlyKlm
    /\ ENABLED (update_gui /\ text_buffer' = "efghij klm")

(***************************************************************************)
(* Properties of live_translate.py's failure handling                      *)
(***************************************************************************)
\* C9: when the translator raises for an item, translate_loop still puts the item
\* on translated_queue with translated_text equal to its text and its is_final
\* flag kept, and goes on with its loop.
C9_TranslatorFailurePassThrough ==
    [][ (tr_pc = "raised" /\ tr_pc' # "raised")
        => /\ translated_queue' =
                Append(translated_queue, TranslatedItem(tr_item, tr_item.text))
           /\ tr_pc' = "while" ]_vars

\* C10: once m.record has raised, the program ends by itself: in every state
\* after the failure either main has returned or some step other than the user
\* closing the window can be taken.
C10_AudioErrorTerminates ==
    (cap_pc = "error" /\ recorder = "closed")
        => (main_pc = "done" \/ ENABLED ProgramStep)

(***************************************************************************)
(* Properties of live_captions.py                                          *)
(***************************************************************************)
\* C5: len(self.text_buffer) never exceeds max_buffer_length (self.text_buffer
\* changes only inside update_gui, so every state shows it as a call left it).
C5_CaptionsBufferBounded == Len(text_buffer) <= max_len

(***************************************************************************)
(* Properties of live_translate.py's pipeline                              *)
(***************************************************************************)
\* The recognition event an item carries.
EventOf(item) == [text |-> item.text, is_final |-> item.is_final]

EventsOf(q) == [i \in 1..Len(q) |-> EventOf(q[i])]

\* The item translate_loop has taken and not yet put.
InFlight == IF tr_pc \in {"translate", "raised"} THEN <<EventOf(tr_item)>> ELSE <<>>

\* The events between capture and display, oldest first.
Pipeline == EventsOf(translated_queue) \o InFlight \o EventsOf(recognized_queue)

\* C11: events travel from capture_audio_loop to update_gui in the order they were
\* enqueued: a step leaves the pipeline's order alone, or adds one event at its
\* back (capture), or takes the events of translated_queue from its front and
\* applies them oldest first (update_gui), or loses the one item a failed
\* translator call held; no step swaps two events.
C11_OrderPreserved ==
    [][ \/ Pipeline' = Pipeline
        \/ /\ Len(Pipeline') = Len(Pipeline) + 1
           /\ SubSeq(Pipeline', 1, Len(Pipeline)) = Pipeline
           /\ cap_pc = "record"
        \/ /\ TickApplies
           /\ Pipeline' = SubSeq(Pipeline, Len(translated_queue) + 1, Len(Pipeline))
           /\ LET full == text_buffer \o FinalsText(translated_queue)
              IN  text_buffer' \in {full, LastChars(full, max_len)}
           /\ partial_text' =
                IF LastItem(translated_queue).is_final THEN ""
                ELSE LastItem(translated_queue).translated_text \o "..."
        \/ /\ tr_pc = "raised"
           /\ tr_pc' = "crashed"
           /\ Pipeline' = EventsOf(translated_queue) \o EventsOf(recognized_queue)
      ]_vars

\* translate_loop is about to take the partial of an utterance whose final is
\* already waiting behind it.
C11_Witness ==
    /\ tr_pc = "poll"
    /\ Len(recognized_queue) >= 2
    /\ ~recognized_queue[1].is_final
    /\ recognized_queue[2].is_final
    /\ ENABLED (translate_poll /\ ~tr_item'.is_final)

\* C12: translate_loop takes the oldest event of recognized_queue, and when the
\* translator returns it puts exactly one item, with the same text and is_final
\* flag and with translated_text a result of translator(text); translated_queue
\* grows in no other way.
C12_TranslateForwardsOnce ==
    [][ /\ (tr_pc = "poll" /\ tr_pc' = "translate")
           => (tr_item' = Head(recognized_queue)
               /\ recognized_queue' = Tail(recognized_queue))
        /\ (tr_pc = "translate" /\ tr_pc' = "while")
           => Len(translated_queue') = Len(translated_queue) + 1
        /\ (Len(translated_queue') > Len(translated_queue))
           => /\ tr_pc = "translate"
              /\ tr_pc' = "while"
              /\ \E t \in TranslatorResults(tr_item.text) :
                    translated_queue' =
                        Append(translated_queue,
                               [text |-> tr_item.text,
                                is_final |-> tr_item.is_final,
                                translated_text |-> t])
      ]_vars

\* translate_loop holds a final event and the translator can return for it.
C12_Witness ==
    /\ tr_pc = "translate"
    /\ tr_item.is_final
    /\ ENABLED (translate_call /\ Len(translated_queue') = Len(translated_queue) + 1)

\* The capture thread has exited (returned, or ended in its except handler)
CaptureExited == cap_pc \in {"done", "error"}

\* The translate thread has exited (returned, or ended by an exception)
TranslateExited == tr_pc \in {"done", "crashed"}

ChannelCapacity == MaxFrames - 1

\* C14: the channels between the stages are bounded: no queue ever holds
\* more events than a fixed capacity.  (The queues are built by Queue(), with
\* no maxsize: put never blocks, and a queue holds as many events as frames
\* were captured while its consumer did not run.)
C14_ChannelsBounded ==
    /\ Len(recognized_queue) <= ChannelCapacity
    /\ Len(translated_queue) <= ChannelCapacity
    /\ Len(transcript_queue) <= ChannelCapacity

\* C15: when a stage thread has ended because of an error raised inside it,
\* the running flag is False.
C15_StageErrorStopsAll ==
    (cap_pc = "error" \/ tr_pc = "crashed") => ~running

\* C16: translate_loop completes no loop iteration while recognized_queue is
\* empty and the running flag is True.
C16_NoBusyWait ==
    [][~(/\ tr_pc = "poll"
         /\ recognized_queue = <<>>
         /\ running
         /\ tr_pc' = "while")]_vars

\* Events a stage can still put once the flag is False: the capture thread
\* one if a record call is in flight, the translate thread one if it is past
\* its test of the flag.
CaptureBudget == IF cap_pc = "record" THEN 1 ELSE 0

TranslateBudget == IF tr_pc \in {"poll", "translate"} THEN 1 ELSE 0

\* The number of events a step adds to a queue
Added(before, after) == IF Len(after) > Len(before) THEN Len(after) - Len(before) ELSE 0

\* C17: once the running flag is False it stays False, and each stage of
\* live_translate.py ends after at most one further cycle: every event a
\* stage puts uses up its budget of one, and a stage that has tested the
\* flag does not start another cycle.
C17_PromptExit ==
    [][~running =>
          /\ ~running'
          /\ Added(recognized_queue, recognized_queue') + CaptureBudget' <= CaptureBudget
          /\ Added(translated_queue, translated_queue') + TranslateBudget' <= TranslateBudget
          /\ cap_pc = "while" => cap_pc' \in {"while", "done"}
          /\ tr_pc = "while" => tr_pc' \in {"while", "done"}]_vars

C17_Witness ==
    /\ ~running
    /\ cap_pc = "record"
    /\ tr_pc = "translate"
    /\ ENABLED (capture_frame /\ Len(recognized_queue') > Len(recognized_queue))

\* s ends with the string t.
IsSuffix(t, s) == \E k \in 0..Len(s) : t = SubSeq(s, k + 1, Len(s))

\* What a tick of live_translate.py has to show: text_buffer with the finals
\* of this tick, then the pending partial on a line of its own.
TickText ==
    strip(text_buffer \o FinalsText(translated_queue))
    \o (IF partial_text' = "" THEN "" ELSE "\n" \o strip(partial_text'))

\* C18: with max_buffer_length >= 1, the string a tick of update_gui sets on
\* the label is at most max_buffer_length long; it is the whole of
\* text_buffer followed by partial_text when that fits, and otherwise exactly
\* its last max_buffer_length characters.
C18_LabelBounded ==
    [][(update_gui /\ max_len >= 1) =>
          /\ Len(label') <= max_len
          /\ IsSuffix(label', TickText)
          /\ Len(label') = IF Len(TickText) > max_len THEN max_len ELSE Len(TickText)]_vars

\* A tick showed the end of text_buffer and the whole pending partial, cut.
C18_Witness ==
    /\ main_pc = "mainloop"
    /\ partial_text # ""
    /\ Len(label) = max_len
    /\ Len(label) > Len(partial_text) + 1
    /\ Len(strip(text_buffer)) + Len(partial_text) + 1 > max_len

\* The committed text of a tick of live_translate.py before any truncation
Committed == text_buffer \o FinalsText(translated_queue)

\* The committed text of a tick of live_translate_old.py that takes new_text
OLD_Committed(new_text) ==
    IF EndsWith(new_text, "...") THEN text_buffer ELSE text_buffer \o " " \o new_text

\* C19: in update_gui of live_translate.py and of live_translate_old.py, when
\* the composed display string is longer than max_buffer_length and the
\* committed buffer alone is not, the tick leaves the committed buffer whole.
C19_DisplayTrimLeavesBuffer ==
    [][/\ (program = "live_translate" /\ update_gui
             /\ Len(TickText) > max_len /\ Len(Committed) <= max_len)
          => text_buffer' = Committed
       /\ (program = "live_translate_old" /\ OLD_update_gui /\ transcript_queue # <<>>
             /\ Len(text_buffer \o " " \o Head(transcript_queue)) > max_len
             /\ Len(OLD_Committed(Head(transcript_queue))) <= max_len)
          => text_buffer' = OLD_Committed(Head(transcript_queue))]_vars

\* live_translate_old.py showed a partial cut to max_buffer_length while the
\* buffer, shorter than that, is still whole.
C19_Witness ==
    /\ program = "live_translate_old"
    /\ main_pc = "mainloop"
    /\ Len(text_buffer) >= 2
    /\ Len(text_buffer) <= max_len
    /\ Len(label) = max_len
    /\ EndsWith(label, "...")
    /\ ~IsSuffix(text_buffer, label)

\* C20: in the single-buffer caption programs self.text_buffer is the
\* concatenation of the final events seen so far: a tick that takes a
\* partial (a string carrying "...") leaves the buffer as it was, and a tick
\* that takes a final appends it to the buffer.
C20_SingleBufferKeepsFinals ==
    [][(program \in SingleBufferPrograms /\ SB_update_gui /\ transcript_queue # <<>>) =>
          text_buffer' = IF Contains(Head(transcript_queue), "...")
                         THEN text_buffer
                         ELSE text_buffer \o " " \o Head(transcript_queue)]_vars

\* A resource the program cannot start without is missing.
StartupFatal ==
    ~resources.config_ini \/ ~resources.model_path \/ ~resources.loopback

\* C21: when config.ini is missing, the model path does not exist or the
\* loopback device cannot be obtained, live_translate.py never starts a
\* pipeline thread: main never gets to t_capture.start().
C21_StartupFatal ==
    StartupFatal =>
        /\ cap_pc = "unstarted"
        /\ tr_pc = "unstarted"
        /\ main_pc \in {"guard", "load_config", "setup_translator", "load_model",
                        "get_mic", "fatal"}

C21_Witness ==
    /\ main_pc = "fatal"
    /\ resources.config_ini
    /\ resources.model_dir
    /\ resources.model_path
    /\ ~resources.loopback

\* C22: capture_audio_loop puts at most one event per frame read: the
\* queue grows only by a step of the capture thread that finishes a frame,
\* and then by exactly one event appended at the tail.
C22_OneEventPerFrame ==
    [][Len(recognized_queue') > Len(recognized_queue) =>
          /\ cap_pc = "record"
          /\ cap_pc' = "while"
          /\ frame_no' = frame_no + 1
          /\ Len(recognized_queue') = Len(recognized_queue) + 1
          /\ SubSeq(recognized_queue', 1, Len(recognized_queue)) = recognized_queue]_vars

C22_Witness ==
    /\ cap_pc = "record"
    /\ recognized_queue # <<>>
    /\ LastItem(recognized_queue).is_final
    /\ ENABLED (capture_frame /\ Len(recognized_queue') = Len(recognized_queue) + 1
                              /\ LastItem(recognized_queue').is_final)

\* C23: no event on recognized_queue has an empty text or a text with
\* whitespace around it, and a frame whose text is empty after strip puts
\* nothing and raises nothing: the loop goes on to its next test of the flag.
C23_NoEmptyEvent ==
    [][/\ \A i \in 1..Len(recognized_queue') :
             /\ recognized_queue'[i].text # ""
             /\ strip(recognized_queue'[i].text) = recognized_queue'[i].text
       /\ (capture_frame /\ recognized_queue' = recognized_queue)
             => (cap_pc' = "while" /\ running' = running /\ recorder' = recorder)]_vars

\* A frame within the budget can come back with nothing but whitespace.
C23_Witness ==
    /\ cap_pc = "record"
    /\ frame_no < FrameLimit
    /\ recognized_queue # <<>>
    /\ ENABLED (capture_frame /\ recognized_queue' = recognized_queue
                              /\ frame_no' = frame_no + 1)

\* C24: text_buffer and partial_text of live_translate.py change only in a
\* call of update_gui; every step of the capture and translate threads
\* leaves both as they are.
C24_DisplayStateOwned ==
    [][/\ (text_buffer' # text_buffer \/ partial_text' # partial_text) => update_gui
       /\ (cap_pc' # cap_pc \/ tr_pc' # tr_pc \/ frame_no' # frame_no)
             => (text_buffer' = text_buffer /\ partial_text' = partial_text)]_vars

C24_Witness ==
    /\ text_buffer # ""
    /\ partial_text # ""
    /\ cap_pc = "record"
    /\ tr_pc = "translate"

\* C27: when capture_audio_loop has returned, the recorder it opened is
\* closed, whether the loop ended on the flag or by an exception; the
\* recorder is open only while the thread is inside the with block.
C27_RecorderReleased ==
    /\ CaptureExited => recorder # "open"
    /\ cap_pc = "done" => recorder = "closed"
    /\ recorder = "open" => cap_pc \in {"while", "record"}

C27_Witness ==
    cap_pc = "error" /\ recorder = "closed" /\ frame_no > 0

\* The threads that can be inside a call of the recognizer now
RecognizerUsers == {thread \in Threads : InRecognizerCall(thread)}

AfterEvents(k) ==
    [text_buffer |-> text_buffer \o FinalsText(SubSeq(translated_queue, 1, k)),
     partial_text |-> IF k = 0 THEN partial_text
                      ELSE IF translated_queue[k].is_final THEN ""
                      ELSE translated_queue[k].translated_text \o "..."]

\* The text a render shows for a display state
Rendered(ds) ==
    LET composed == strip(ds.text_buffer)
                    \o (IF ds.partial_text = "" THEN ""
                        ELSE "\n" \o strip(ds.partial_text))
    IN  IF Len(composed) > max_len
        THEN SubSeq(composed, Len(composed) - max_len + 1, Len(composed))
        ELSE composed

\* C26: the label is set only by update_gui, and the text it sets is the
\* rendering of a display state reached by applying a whole number of the
\* queued events: the events applied are gone from the queue, the rest are
\* still there, and text_buffer and partial_text are left as that state
\* (text_buffer possibly cut to max_buffer_length).
C26_NoTornRender ==
    [][/\ label' # label => update_gui
       /\ update_gui =>
             \E k \in 0..Len(translated_queue) :
                /\ label' = Rendered(AfterEvents(k))
                /\ partial_text' = AfterEvents(k).partial_text
                /\ text_buffer' \in {AfterEvents(k).text_buffer,
                                     LastChars(AfterEvents(k).text_buffer, max_len)}
                /\ translated_queue'
                      = SubSeq(translated_queue, k + 1, Len(translated_queue))]_vars

\* A tick is due with a final and a partial queued while both threads run.
C26_Witness ==
    /\ TickDue
    /\ HasFinal(translated_queue)
    /\ HasPartial(translated_queue)
    /\ cap_pc = "record"
    /\ tr_pc = "translate"
    /\ ENABLED (update_gui /\ label' # label)

\* The final events between the capture thread and text_buffer
PendingFinals ==
    Cardinality({i \in 1..Len(Pipeline) : Pipeline[i].is_final})

\* C28: while the running flag stays True and the translator returns, no
\* final event put by capture_audio_loop stays in the pipeline for ever: it
\* is taken by translate_loop, put on translated_queue and applied by a
\* tick of update_gui (which, by C1 and C11, appends it to text_buffer).
C28_NoTextLost ==
    (PendingFinals > 0)
        ~> (PendingFinals = 0 \/ ~running \/ tr_pc \in {"raised", "crashed"})

\* Every frame was heard, the flag is still True, and the finals have all
\* arrived in text_buffer.
C28_Witness ==
    /\ running
    /\ frame_no = FrameLimit
    /\ Pipeline = <<>>
    /\ tr_pc \in {"while", "poll"}
    /\ translator = "argos"
    /\ text_buffer # ""
    /\ main_pc = "mainloop"

\* C29: in every program the running flag starts True and no step sets it
\* back to True once it is False.
C29_FlagMonotonic ==
    (running = TRUE) /\ [][running' = TRUE => running = TRUE]_vars

\* terminate_program has cleared the flag while the capture thread is still
\* recording and the constructor has yet to assign it again.
C29_Witness ==
    /\ program = "caption_optimised"
    /\ ~running
    /\ main_pc = "finally"
    /\ cap_pc = "record"

\* The strings the capture thread can put for the frame outcome o
FrameStrings(o) ==
    IF program = "live_translate_old"
    THEN IF strip(o.text) = "" THEN {}
         ELSE {OLD_TranscriptString(o, t) : t \in TranslatorResults(strip(o.text))}
    ELSE {SC_TranscriptEvents(o)[i] : i \in 1..Len(SC_TranscriptEvents(o))}

\* update_gui appends the string s to the committed buffer.
TreatedAsFinal(s) ==
    (IF program = "live_translate_old"
     THEN OLD_Buffer(text_buffer, s) ELSE SC_Buffer(text_buffer, s))
        = text_buffer \o " " \o s

\* C30: in live_translate_old.py and live_captions.py, whatever the text,
\* the string the capture thread puts for a frame is appended to the buffer
\* by update_gui exactly when the frame's result was final.
C30_MarkerFaithful ==
    cap_pc = "record" =>
        \A o \in FrameOutcomes :
            o.kind # "error" =>
                \A s \in FrameStrings(o) : TreatedAsFinal(s) <=> (o.kind = "final")

\* C31: recognized_queue.get() in translate_loop never blocks: whenever
\* the thread is at the get the queue holds an item, because only this
\* thread's get ever takes one out; the get returns and the thread goes on
\* to its next test of the running flag.
C31_GetNeverBlocks ==
    [][/\ tr_pc' = "get" => recognized_queue' # <<>>
       /\ Len(recognized_queue') < Len(recognized_queue)
             => (tr_pc = "get" /\ tr_pc' = "translate"
                 /\ recognized_queue' = Tail(recognized_queue))
       /\ tr_pc = "get" => ENABLED translate_get]_vars

\* The thread is at the get while capture and a tick can both run.
C31_Witness ==
    /\ tr_pc = "get"
    /\ cap_pc = "record"
    /\ TickDue
    /\ Len(recognized_queue) = 1

\* Calls of update_gui still to come that nothing has to schedule: the call
\* main makes itself (line 298) and a pending root.after callback.
TickBudget ==
    IF main_pc \in {"start", "update_gui"} \/ (main_pc = "mainloop" /\ timer)
    THEN 1 ELSE 0

\* C32: once the running flag is False, update_gui runs at most once
\* more and does not schedule itself again; the label, text_buffer and
\* partial_text change in that call only, and never after it.
C32_RenderStops ==
    [][~running =>
          /\ update_gui => (TickBudget = 1 /\ TickBudget' = 0 /\ ~timer')
          /\ TickBudget' <= TickBudget
          /\ (label' # label \/ text_buffer' # text_buffer \/ partial_text' # partial_text)
                => (update_gui /\ TickBudget = 1)
          /\ TickBudget = 0
                => (label' = label /\ text_buffer' = text_buffer
                    /\ partial_text' = partial_text)]_vars

\* The capture thread ended on an audio error, the last tick has run and
\* an event is left on translated_queue that no tick will show.
C32_Witness ==
    /\ ~running
    /\ cap_pc = "error"
    /\ main_pc = "mainloop"
    /\ ~timer
    /\ translated_queue # <<>>
    /\ label # ""

\* C33: after the GUI main loop has returned, given that every mic.record
\* call and every translator call comes back, the capture thread and the
\* translate thread exit and main gets past both joins.
C33_ShutdownTerminates ==
    (main_pc = "finally") ~> (main_pc = "done" /\ CaptureExited /\ TranslateExited)

\* The window is closed while both threads are in the middle of a cycle.
C33_Witness ==
    /\ main_pc = "finally"
    /\ running
    /\ cap_pc = "record"
    /\ tr_pc = "translate"
    /\ recognized_queue # <<>>

====
